---- MODULE Spec2Model ----
(***************************************************************************)
(* pooch-dropbox: the Dropbox content hasher (DropboxContentHasher), the   *)
(* hashing stream decorator (StreamHasher) and the registry builder        *)
(* (create_shared_links / create_pooch_registry).                          *)
(*                                                                         *)
(* SHA-256 is modelled as an ideal (collision-free) hash: a digest is the  *)
(* term [sha256 |-> <what was fed to the context>].  Two digests are equal *)
(* exactly when the contexts were fed the same data, so every equality of  *)
(* digests the model proves also holds of the real function.  A 32-byte    *)
(* raw digest fed to the overall context is one element of that context's  *)
(* buffer (fixed-width digests concatenate without ambiguity).             *)
(*                                                                         *)
(* BLOCK_SIZE is 4 MiB in the source; the model scales it down so that     *)
(* inputs of several blocks are enumerable.  Nothing in update() or        *)
(* _finish() depends on the value other than through comparisons with      *)
(* block_pos and the slice length.                                         *)
(***************************************************************************)
EXTENDS Integers, Sequences, FiniteSets, TLC

\* ------------------------------------------------------------------ bounds
MaxTotal == 5       \* total number of bytes fed to one hasher
MaxUpdates == 3     \* number of successful update() calls on one hasher
MaxAfter == 2       \* number of calls made on a hasher after finalization

BLOCK_SIZE == 2

\* Two byte values are enough to tell data apart and to have a newline and a
\* non-newline byte.
Byte == {0, 1}

Min(a, b) == IF a < b THEN a ELSE b

BytesUpTo(n) == UNION {[1..k -> Byte] : k \in 0..n}

RECURSIVE Flatten(_)
Flatten(ss) == IF ss = <<>> THEN <<>> ELSE Head(ss) \o Flatten(Tail(ss))

\* Python's s[a:b] for 0 <= a <= b (0-based, end exclusive, clipped to len(s)).
Slice(s, a, b) == SubSeq(s, a + 1, Min(b, Len(s)))

\* ----------------------------------------------------------------- hashlib
None == [none |-> TRUE, buf |-> <<>>]

sha256_new == [none |-> FALSE, buf |-> <<>>]

sha256_update(ctx, data) == [ctx EXCEPT !.buf = @ \o data]

sha256_digest(ctx) == [sha256 |-> ctx.buf]

hex(d) == [hex_of |-> d]

sha256_hexdigest(ctx) == hex(sha256_digest(ctx))

\* What a call returns: None, a raw digest (bytes) or a hexadecimal string.
NoDigest == [sha256 |-> <<>>, absent |-> TRUE]
RetNone == [kind |-> "None", of |-> NoDigest]
RetBytes(d) == [kind |-> "bytes", of |-> d]
RetStr(x) == [kind |-> "str", of |-> x]

\* ------------------------------------------------- DropboxContentHasher
VARIABLES
    overall_hasher,   \* self._overall_hasher: a sha256 context over block digests, or None
    block_hasher,     \* self._block_hasher: a sha256 context over bytes, or None
    block_pos,        \* self._block_pos
    calls,            \* history: the data of every update() call that returned
    ret,              \* the outcome of the last call on the hasher
    finalized,        \* history: a digest()/hexdigest() call has returned
    after,            \* history: number of calls made since finalization
    arg_type,         \* history: the type of the value the last direct update() call was given
    parts             \* history: len(part) of each loop iteration, when the last call was an update()

hasher_vars == <<overall_hasher, block_hasher, block_pos, calls, ret, finalized, after,
                 arg_type, parts>>

\* ----------------------------------------------------------- StreamHasher
VARIABLES
    f,                \* self._f: the wrapped stream (mode, content, position, closed)
    inner,            \* the outcome of the wrapped stream's call made by the last adapter call
    sret,             \* the outcome of the last adapter call
    transferred,      \* history: the bytes moved by the adapter calls that returned
    all_ok,           \* history: every adapter call so far returned
    prev_hasher,      \* history: the hasher's fields before the last adapter call
    ncalls            \* history: number of adapter calls made

stream_vars == <<f, inner, sret, transferred, all_ok, prev_hasher, ncalls>>

\* ------------------------------ create_shared_links / create_pooch_registry
VARIABLES
    env_token,        \* os.getenv("DROPBOX_API_TOKEN"), "" when unset
    listing,          \* the entries files_list_folder returns
    extension,        \* the extension argument
    force_hash,       \* the force_hash argument
    pc,               \* where the run is: "start", "iter", "body", "done", "error"
    cursor,           \* number of listing entries the generator has gone through
    link,             \* the record the generator yielded last
    registry,         \* the lines written to the output file
    warned,           \* the listing indexes a warning was emitted for
    log               \* the remote calls, downloads and hash computations made

registry_vars == <<env_token, listing, extension, force_hash, pc, cursor, link,
                   registry, warned, log>>

\* ------------------------------------------------------- db_content_hash
VARIABLES
    content,          \* the bytes of the file db_content_hash is given
    chunksize_arg,    \* the chunksize argument
    db_ret            \* whether db_content_hash has returned, and the string

file_vars == <<content, chunksize_arg, db_ret>>

Hasher(o, b, p) == [overall_hasher |-> o, block_hasher |-> b, block_pos |-> p]

Self == Hasher(overall_hasher, block_hasher, block_pos)

\* __init__
NewHasher == Hasher(sha256_new, sha256_new, 0)

\* Mutant of AlreadyFinalized: "and" in place of "or".
AlreadyFinalized_and(h) == h.overall_hasher = None /\ h.block_hasher = None

\* The guard shared by update() and _finish().
AlreadyFinalized(h) == h.overall_hasher = None \/ h.block_hasher = None

\* Mutant of CloseBlock: the block hasher is not replaced by a fresh one.
CloseBlock_noreset(h) ==
    IF h.block_pos = BLOCK_SIZE
    THEN Hasher(sha256_update(h.overall_hasher, <<sha256_digest(h.block_hasher)>>),
                h.block_hasher, 0)
    ELSE h

\* Lines 86-89: the pending full block is folded in before more data is taken.
CloseBlock(h) ==
    IF h.block_pos = BLOCK_SIZE
    THEN Hasher(sha256_update(h.overall_hasher, <<sha256_digest(h.block_hasher)>>),
                sha256_new, 0)
    ELSE h

\* Mutant of Part: the slice is not limited to the space left in the block.
Part_unlimited(h, new_data, new_data_pos) ==
    Slice(new_data, new_data_pos, Len(new_data))

\* Lines 91-92: the part of new_data that still fits into the current block.
Part(h, new_data, new_data_pos) ==
    LET space_in_block == BLOCK_SIZE - h.block_pos
    IN  Slice(new_data, new_data_pos, new_data_pos + space_in_block)

\* Mutant of update_loop: a block is folded in as soon as it is full.
RECURSIVE update_loop_eager(_, _, _)
update_loop_eager(h, new_data, new_data_pos) ==
    IF new_data_pos < Len(new_data)
    THEN LET part == Part(h, new_data, new_data_pos)
             h2 == [h EXCEPT !.block_hasher = sha256_update(@, part),
                             !.block_pos = @ + Len(part)]
         IN  update_loop_eager(CloseBlock(h2), new_data, new_data_pos + Len(part))
    ELSE h

\* The while loop of update(), from new_data_pos on.
RECURSIVE update_loop(_, _, _)
update_loop(h, new_data, new_data_pos) ==
    IF new_data_pos < Len(new_data)
    THEN LET h1 == CloseBlock(h)
             part == Part(h1, new_data, new_data_pos)
             h2 == [h1 EXCEPT !.block_hasher = sha256_update(@, part),
                              !.block_pos = @ + Len(part)]
         IN  update_loop(h2, new_data, new_data_pos + Len(part))
    ELSE h

\* Mutant of update_parts: the loop is left after its first iteration.
update_parts_once(h, new_data, new_data_pos) ==
    IF new_data_pos < Len(new_data)
    THEN <<Len(Part(CloseBlock(h), new_data, new_data_pos))>>
    ELSE <<>>

\* The while loop of update(), from new_data_pos on: len(part) of every
\* iteration, in order.
RECURSIVE update_parts(_, _, _)
update_parts(h, new_data, new_data_pos) ==
    IF new_data_pos < Len(new_data)
    THEN LET h1 == CloseBlock(h)
             part == Part(h1, new_data, new_data_pos)
             h2 == [h1 EXCEPT !.block_hasher = sha256_update(@, part),
                              !.block_pos = @ + Len(part)]
         IN  <<Len(part)>> \o update_parts(h2, new_data, new_data_pos + Len(part))
    ELSE <<>>

\* The types of the values update() is called with, besides bytes.
NonBytesTypes == {"str", "bytearray", "int", "NoneType"}

\* A value of a type: data is the bytes it stands for where it stands for some.
Value(type, data) == [type |-> type, data |-> data]

\* Mutant of IsBytes: a bytearray is taken for bytes.
IsBytes_coerced(v) == v.type \in {"bytes", "bytearray"}

\* Line 82: isinstance(new_data, bytes)
IsBytes(v) == v.type = "bytes"

\* update(new_data) for a byte string: the new state and what was raised.
update(h, new_data) ==
    IF AlreadyFinalized(h)
    THEN [h |-> h, raised |-> "RuntimeError"]
    ELSE [h |-> update_loop(h, new_data, 0), raised |-> ""]

\* update(new_data) for a value of any type: the guard of line 77, then the
\* assertion of line 82, then the loop.
update_value(h, v) ==
    IF AlreadyFinalized(h) THEN [h |-> h, raised |-> "RuntimeError"]
    ELSE IF ~IsBytes(v) THEN [h |-> h, raised |-> "AssertionError"]
    ELSE update(h, v.data)

\* Mutant of FoldAtFinish: the current block is folded in even when it is empty.
FoldAtFinish_always(h) == h.block_pos >= 0

\* Line 105: whether _finish() folds the current block in.
FoldAtFinish(h) == h.block_pos > 0

\* _finish(): the new state, what was raised, and the context returned.
finish(h) ==
    IF AlreadyFinalized(h)
    THEN [h |-> h, raised |-> "RuntimeError", value |-> None]
    ELSE LET folded == FoldAtFinish(h)
             o == IF folded
                  THEN sha256_update(h.overall_hasher, <<sha256_digest(h.block_hasher)>>)
                  ELSE h.overall_hasher
             b == IF folded THEN None ELSE h.block_hasher
         IN  [h |-> Hasher(None, b, h.block_pos), raised |-> "", value |-> o]

digest(h) ==
    LET r == finish(h)
    IN  [h |-> r.h, raised |-> r.raised,
         value |-> IF r.raised = "" THEN RetBytes(sha256_digest(r.value)) ELSE RetNone]

hexdigest(h) ==
    LET r == finish(h)
    IN  [h |-> r.h, raised |-> r.raised,
         value |-> IF r.raised = "" THEN RetStr(sha256_hexdigest(r.value)) ELSE RetNone]

Fed == Flatten(calls)

\* The effect of one call's outcome r on the hasher object.
SetHasher(r) ==
    /\ overall_hasher' = r.h.overall_hasher
    /\ block_hasher' = r.h.block_hasher
    /\ block_pos' = r.h.block_pos

Budget == IF finalized THEN after < MaxAfter ELSE TRUE

Count == after' = IF finalized THEN after + 1 ELSE after

\* A caller invokes hasher.update(new_data).
Update ==
    /\ Budget
    /\ \E new_data \in BytesUpTo(MaxTotal - Len(Fed)) :
          LET r == update(Self, new_data)
          IN  /\ r.raised = "" => Len(calls) < MaxUpdates
              /\ SetHasher(r)
              /\ calls' = IF r.raised = "" THEN Append(calls, new_data) ELSE calls
              /\ ret' = [op |-> "update", raised |-> r.raised, value |-> RetNone]
              /\ parts' = IF r.raised = "" THEN update_parts(Self, new_data, 0) ELSE <<>>
    /\ arg_type' = "bytes"
    /\ Count
    /\ UNCHANGED <<finalized, stream_vars, registry_vars, file_vars>>

\* A caller invokes hasher.update(v) with a value that is not a byte string.
UpdateNonBytes ==
    /\ Budget
    /\ \E t \in NonBytesTypes, data \in BytesUpTo(Min(BLOCK_SIZE, MaxTotal - Len(Fed))) :
          LET r == update_value(Self, Value(t, data))
          IN  /\ r.raised = "" => Len(calls) < MaxUpdates
              /\ SetHasher(r)
              /\ calls' = IF r.raised = "" THEN Append(calls, data) ELSE calls
              /\ ret' = [op |-> "update", raised |-> r.raised, value |-> RetNone]
              /\ arg_type' = t
              /\ parts' = IF r.raised = "" THEN update_parts(Self, data, 0) ELSE <<>>
    /\ Count
    /\ UNCHANGED <<finalized, stream_vars, registry_vars, file_vars>>

\* A caller invokes hasher.digest().
Digest ==
    /\ Budget
    /\ LET r == digest(Self)
       IN  /\ SetHasher(r)
           /\ ret' = [op |-> "digest", raised |-> r.raised, value |-> r.value]
           /\ finalized' = (finalized \/ r.raised = "")
           /\ parts' = <<>>
    /\ Count
    /\ UNCHANGED <<calls, arg_type, stream_vars, registry_vars, file_vars>>

\* A caller invokes hasher.hexdigest().
Hexdigest ==
    /\ Budget
    /\ LET r == hexdigest(Self)
       IN  /\ SetHasher(r)
           /\ ret' = [op |-> "hexdigest", raised |-> r.raised, value |-> r.value]
           /\ finalized' = (finalized \/ r.raised = "")
           /\ parts' = <<>>
    /\ Count
    /\ UNCHANGED <<calls, arg_type, stream_vars, registry_vars, file_vars>>

HasherInit ==
    /\ overall_hasher = NewHasher.overall_hasher
    /\ block_hasher = NewHasher.block_hasher
    /\ block_pos = NewHasher.block_pos
    /\ calls = <<>>
    /\ ret = [op |-> "init", raised |-> "", value |-> RetNone]
    /\ finalized = FALSE
    /\ after = 0
    /\ arg_type = ""
    /\ parts = <<>>

\* ------------------------------------------------------ the wrapped stream
\* A binary file object as the adapter sees it: opened for reading ("r", with
\* its content and position) or for writing ("w", content so far), maybe closed.
MaxStream == 3      \* length of a readable stream's content
MaxSize == 1        \* largest size argument of read() and readline()
MaxWrite == 1       \* length of the data of one write()
MaxStreamCalls == 3 \* number of calls made through one adapter

\* What a stream call returns.
NoneVal == [kind |-> "None", bytes |-> <<>>, list |-> <<>>, num |-> 0]
BytesVal(b) == [kind |-> "bytes", bytes |-> b, list |-> <<>>, num |-> 0]
ListVal(l) == [kind |-> "list", bytes |-> <<>>, list |-> l, num |-> 0]
IntVal(n) == [kind |-> "int", bytes |-> <<>>, list |-> <<>>, num |-> n]

\* The byte that ends a line.
IsNewline(b) == b = 0

\* What the stream raises when asked for an operation of the given mode.
Refusal(s, mode) ==
    IF s.closed THEN "ValueError"
    ELSE IF mode # "" /\ s.mode # mode THEN "UnsupportedOperation"
    ELSE ""

StreamResult(s, raised, value) == [f |-> s, raised |-> raised, value |-> value]

\* The end (exclusive, 0-based) of the line that starts at pos.
RECURSIVE LineEnd(_, _)
LineEnd(data, pos) ==
    IF pos >= Len(data) THEN Len(data)
    ELSE IF IsNewline(data[pos + 1]) THEN pos + 1
    ELSE LineEnd(data, pos + 1)

\* self._f.read(*args): all the rest for no or a negative size, else up to size bytes.
f_read(s, size) ==
    IF Refusal(s, "r") # "" THEN StreamResult(s, Refusal(s, "r"), NoneVal)
    ELSE LET end == IF size < 0 THEN Len(s.data) ELSE Min(s.pos + size, Len(s.data))
         IN  StreamResult([s EXCEPT !.pos = end], "", BytesVal(Slice(s.data, s.pos, end)))

\* self._f.readline(*args): up to and including the next newline, at most size bytes.
f_readline(s, size) ==
    IF Refusal(s, "r") # "" THEN StreamResult(s, Refusal(s, "r"), NoneVal)
    ELSE LET eol == LineEnd(s.data, s.pos)
             end == IF size < 0 THEN eol ELSE Min(s.pos + size, eol)
         IN  StreamResult([s EXCEPT !.pos = end], "", BytesVal(Slice(s.data, s.pos, end)))

RECURSIVE LinesFrom(_, _)
LinesFrom(data, pos) ==
    IF pos >= Len(data) THEN <<>>
    ELSE <<Slice(data, pos, LineEnd(data, pos))>> \o LinesFrom(data, LineEnd(data, pos))

\* self._f.readlines(): the list of the remaining lines.
f_readlines(s) ==
    IF Refusal(s, "r") # "" THEN StreamResult(s, Refusal(s, "r"), NoneVal)
    ELSE StreamResult([s EXCEPT !.pos = Len(s.data)], "", ListVal(LinesFrom(s.data, s.pos)))

\* self._f.next(): the next line, StopIteration at the end.
f_next(s) ==
    IF Refusal(s, "r") # "" THEN StreamResult(s, Refusal(s, "r"), NoneVal)
    ELSE IF s.pos >= Len(s.data) THEN StreamResult(s, "StopIteration", NoneVal)
    ELSE f_readline(s, -1)

\* self._f.write(b): the bytes are appended, their number is returned.
f_write(s, b) ==
    IF Refusal(s, "w") # "" THEN StreamResult(s, Refusal(s, "w"), NoneVal)
    ELSE StreamResult([s EXCEPT !.data = @ \o b, !.pos = @ + Len(b)], "", IntVal(Len(b)))

\* self._f.close(): closing twice is allowed.
f_close(s) == StreamResult([s EXCEPT !.closed = TRUE], "", NoneVal)

\* self._f.flush()
f_flush(s) == StreamResult(s, Refusal(s, ""), NoneVal)

\* self._f.tell()
f_tell(s) ==
    IF Refusal(s, "") # "" THEN StreamResult(s, Refusal(s, ""), NoneVal)
    ELSE StreamResult(s, "", IntVal(s.pos))

\* self._f.fileno(): the descriptor, a number that identifies the open mode here.
f_fileno(s) ==
    IF Refusal(s, "") # "" THEN StreamResult(s, Refusal(s, ""), NoneVal)
    ELSE StreamResult(s, "", IntVal(IF s.mode = "r" THEN 3 ELSE 4))

\* ----------------------------------------------------------- StreamHasher
\* The outcome of an adapter call: the stream and the hasher after it, what it
\* raised or returned, the outcome of the wrapped call (if one was made) and the
\* data of the update() calls that returned.
Outcome(s, h, raised, value, in, hashed) ==
    [f |-> s, h |-> h, raised |-> raised, value |-> value, inner |-> in, hashed |-> hashed]

Inner(i) == [called |-> TRUE, raised |-> i.raised, value |-> i.value]

NotCalled == [called |-> FALSE, raised |-> "", value |-> NoneVal]

\* Mutant of sh_forward: the pass-through methods feed a byte to the hasher.
sh_forward_hashed(i, h) ==
    Outcome(i.f, update(h, <<0>>).h, i.raised, IF i.raised = "" THEN i.value ELSE NoneVal,
            Inner(i), <<>>)

\* The pass-through methods: close(), flush(), fileno(), tell().
sh_forward(i, h) ==
    Outcome(i.f, h, i.raised, IF i.raised = "" THEN i.value ELSE NoneVal, Inner(i), <<>>)

\* b = self._f.<op>(*args); self._hasher.update(b); return b
sh_hash_result(i, h) ==
    IF i.raised # "" THEN Outcome(i.f, h, i.raised, NoneVal, Inner(i), <<>>)
    ELSE LET u == update(h, i.value.bytes)
         IN  IF u.raised # "" THEN Outcome(i.f, u.h, u.raised, NoneVal, Inner(i), <<>>)
             ELSE Outcome(i.f, u.h, "", i.value, Inner(i), <<i.value.bytes>>)

sh_read(s, h, size) == sh_hash_result(f_read(s, size), h)

sh_readline(s, h, size) == sh_hash_result(f_readline(s, size), h)

sh_next(s, h) == sh_hash_result(f_next(s), h)

\* self._hasher.update(b); return self._f.write(b)
sh_write(s, h, b) ==
    LET u == update(h, b)
    IN  IF u.raised # "" THEN Outcome(s, u.h, u.raised, NoneVal, NotCalled, <<>>)
        ELSE LET i == f_write(s, b)
             IN  Outcome(i.f, u.h, i.raised, IF i.raised = "" THEN i.value ELSE NoneVal,
                         Inner(i), <<b>>)

\* for b in bs: self._hasher.update(b)
RECURSIVE update_each(_, _)
update_each(h, bs) ==
    IF bs = <<>> THEN [h |-> h, raised |-> "", hashed |-> <<>>]
    ELSE LET u == update(h, Head(bs))
         IN  IF u.raised # "" THEN [h |-> u.h, raised |-> u.raised, hashed |-> <<>>]
             ELSE LET r == update_each(u.h, Tail(bs))
                  IN  [h |-> r.h, raised |-> r.raised, hashed |-> <<Head(bs)>> \o r.hashed]

\* Mutant of sh_readlines_update: only the last line is hashed.
sh_readlines_update_last(h, bs) ==
    IF bs = <<>> THEN update_each(h, bs) ELSE update_each(h, <<bs[Len(bs)]>>)

\* Lines 182-183 of readlines().
sh_readlines_update(h, bs) == update_each(h, bs)

\* bs = self._f.readlines(*args); for b in bs: update(b); return b
\* The loop variable b is returned: the last line, and an UnboundLocalError
\* when the list is empty.
sh_readlines(s, h) ==
    LET i == f_readlines(s)
    IN  IF i.raised # "" THEN Outcome(i.f, h, i.raised, NoneVal, Inner(i), <<>>)
        ELSE LET bs == i.value.list
                 u == sh_readlines_update(h, bs)
             IN  IF u.raised # "" THEN Outcome(i.f, u.h, u.raised, NoneVal, Inner(i), u.hashed)
                 ELSE IF bs = <<>>
                      THEN Outcome(i.f, u.h, "UnboundLocalError", NoneVal, Inner(i), u.hashed)
                      ELSE Outcome(i.f, u.h, "", BytesVal(bs[Len(bs)]), Inner(i), u.hashed)

\* The effect of an adapter call with outcome r on the adapter, its stream, the
\* hasher and the history.
StreamCall(op, r) ==
    /\ ncalls < MaxStreamCalls
    /\ ncalls' = ncalls + 1
    /\ f' = r.f
    /\ SetHasher(r)
    /\ inner' = r.inner
    /\ sret' = [op |-> op, raised |-> r.raised, value |-> r.value]
    /\ prev_hasher' = Self
    /\ calls' = calls \o r.hashed
    /\ all_ok' = (all_ok /\ r.raised = "")
    /\ transferred' = IF r.raised # "" THEN transferred
                      ELSE IF r.inner.value.kind = "list" THEN transferred \o Flatten(r.inner.value.list)
                      ELSE IF r.inner.value.kind = "bytes" THEN transferred \o r.inner.value.bytes
                      ELSE transferred \o Flatten(r.hashed)
    /\ UNCHANGED <<ret, finalized, after, arg_type, parts, registry_vars, file_vars>>

Sizes == -1..MaxSize

Read == \E size \in Sizes : StreamCall("read", sh_read(f, Self, size))

Readline == \E size \in Sizes : StreamCall("readline", sh_readline(f, Self, size))

Readlines == StreamCall("readlines", sh_readlines(f, Self))

NextLine == StreamCall("next", sh_next(f, Self))

Write == \E b \in BytesUpTo(Min(MaxWrite, MaxTotal - Len(Fed))) :
            StreamCall("write", sh_write(f, Self, b))

Close == StreamCall("close", sh_forward(f_close(f), Self))

Flush == StreamCall("flush", sh_forward(f_flush(f), Self))

Tell == StreamCall("tell", sh_forward(f_tell(f), Self))

Fileno == StreamCall("fileno", sh_forward(f_fileno(f), Self))

\* The caller reads the digest off the hasher it handed to the adapter
\* (class docstring: locally_computed = hasher.hexdigest()).
Finalize == ~finalized /\ Hexdigest

Stream(mode, data) == [mode |-> mode, data |-> data, pos |-> IF mode = "w" THEN Len(data) ELSE 0,
                       closed |-> FALSE]

StreamHistoryInit ==
    /\ inner = NotCalled
    /\ sret = [op |-> "init", raised |-> "", value |-> NoneVal]
    /\ transferred = <<>>
    /\ all_ok = TRUE
    /\ prev_hasher = NewHasher
    /\ ncalls = 0

\* StreamHasher(f, hasher) around a fresh hasher and an open stream.
StreamInit ==
    /\ \/ \E data \in BytesUpTo(MaxStream) : f = Stream("r", data)
       \/ f = Stream("w", <<>>)
    /\ StreamHistoryInit

\* No adapter is in use.
NoStream ==
    /\ f = [Stream("r", <<>>) EXCEPT !.closed = TRUE]
    /\ StreamHistoryInit

\* --------------------------------------------- the documented algorithm
\* Module docstring, lines 7-14: the file split into blocks of BLOCK_SIZE bytes,
\* the last one (if any) possibly smaller.
RECURSIVE Blocks(_)
Blocks(s) ==
    IF Len(s) = 0 THEN <<>>
    ELSE <<SubSeq(s, 1, Min(BLOCK_SIZE, Len(s)))>> \o Blocks(SubSeq(s, BLOCK_SIZE + 1, Len(s)))

\* SHA-256 of the concatenation of the blocks' raw SHA-256 digests.
ContentHash(s) ==
    LET bs == Blocks(s)
    IN  sha256_digest(sha256_update(sha256_new, [i \in 1..Len(bs) |->
            sha256_digest(sha256_update(sha256_new, bs[i]))]))

\* ------------------------------------------------------- db_content_hash
\* The default of the chunksize parameter (1024 bytes in the source, scaled
\* with BLOCK_SIZE: smaller than a block and dividing it).
DefaultChunkSize == 1

\* The while loop of db_content_hash: chunks are read and fed until a read
\* returns an empty chunk.
RECURSIVE db_read_loop(_, _, _)
db_read_loop(h, s, chunksize) ==
    LET i == f_read(s, chunksize)
        chunk == i.value.bytes
    IN  IF chunk = <<>> THEN h
        ELSE db_read_loop(update(h, chunk).h, i.f, chunksize)

\* Mutant of db_content_hash: only the first chunk of the file is hashed.
db_content_hash_first(data, chunksize) ==
    LET i == f_read(Stream("r", data), chunksize)
    IN  hexdigest(update(NewHasher, i.value.bytes).h).value.of

\* db_content_hash(file, chunksize) for a file with content data.
db_content_hash(data, chunksize) ==
    hexdigest(db_read_loop(NewHasher, Stream("r", data), chunksize)).value.of

\* pooch.file_hash(path): the hexadecimal SHA-256 of the whole file.
file_hash(data) == sha256_hexdigest(sha256_update(sha256_new, data))

\* ------------------------------------------------ the remote folder listing
MaxEntries == 2     \* number of entries of a folder listing

\* File names and extensions are sequences of characters.
Names == {<<"x", ".", "n">>, <<"y", ".", "t">>}
Extensions == {<<>>, <<".", "n">>}
Folders == {"a", "b"}
Contents == {<<>>, <<0, 1, 0>>}

\* str.endswith
EndsWith(s, suffix) ==
    /\ Len(suffix) <= Len(s)
    /\ SubSeq(s, Len(s) - Len(suffix) + 1, Len(s)) = suffix

NoHex == hex(sha256_digest(sha256_new))

\* dropbox.files.FileMetadata: a file below a folder, the content hash the
\* provider holds for it, and the content a download of it delivers.
FileEntries ==
    {[is_file |-> TRUE, name |-> n, path_lower |-> <<d>> \o n,
      content_hash |-> hex(ContentHash(p)), content |-> c] :
        n \in Names, d \in Folders, p \in Contents, c \in Contents}

\* dropbox.files.FolderMetadata
FolderEntries ==
    {[is_file |-> FALSE, name |-> <<d>>, path_lower |-> <<d>>,
      content_hash |-> NoHex, content |-> <<>>] : d \in Folders}

Entries == FileEntries \cup FolderEntries

\* ListFolderResult.entries: the paths of a listing are distinct.
Listings ==
    {l \in UNION {[1..k -> Entries] : k \in 0..MaxEntries} :
        \A i, j \in 1..Len(l) : i # j => l[i].path_lower # l[j].path_lower}

MaxLong == 4        \* number of entries of a long listing of plain files

\* The k-th file of a long listing: files of one folder with different names,
\* whose download has the provider's content hash or not.
LongEntry(k, p) ==
    [is_file |-> TRUE, name |-> [i \in 1..k |-> "x"] \o <<".", "n">>,
     path_lower |-> <<"a">> \o [i \in 1..k |-> "x"] \o <<".", "n">>,
     content_hash |-> hex(ContentHash(p)), content |-> <<0, 1, 0>>]

\* Listings longer than MaxEntries, of such files only.
LongListings ==
    UNION {{[k \in 1..n |-> LongEntry(k, ps[k])] : ps \in [1..n -> Contents]} :
               n \in (MaxEntries + 1)..MaxLong}

\* The force_hash argument: None, or a string.
ForceHashes == {[given |-> FALSE, text |-> ""], [given |-> TRUE, text |-> ""],
                [given |-> TRUE, text |-> "_"]}

\* ------------------------------ create_shared_links / create_pooch_registry
Event(ev, at) == [ev |-> ev, at |-> at]

\* Lines 39-41: the token argument, else the environment variable.
Token(api_token) == IF api_token # "" THEN api_token ELSE env_token

\* Python truthiness of force_hash (line 125).
Truthy(fh) == fh.given /\ fh.text # ""

\* Mutant of Selected: the extension is not looked at.
Selected_files(entry, ext) == entry.is_file

\* Lines 53-56: the entries the generator yields a record for.
Selected(entry, ext) == entry.is_file /\ (ext # <<>> => EndsWith(entry.name, ext))

\* Line 64: shared_link.url.replace("dl=0", "dl=1")
SharedUrl(entry) == [path |-> entry.path_lower, dl |-> 0]

ReplaceDl(url) == [url EXCEPT !.dl = IF @ = 0 THEN 1 ELSE @]

\* Lines 59-67: the record yielded for the entry at index at.
Link(at) ==
    [at |-> at, name |-> listing[at].name, url |-> ReplaceDl(SharedUrl(listing[at])),
     content_hash |-> listing[at].content_hash]

NoLink == [at |-> 0, name |-> <<>>, url |-> [path |-> <<>>, dl |-> 0], content_hash |-> NoHex]

\* A line of the registry: name, hash and url, the hash forced or computed.
Line(name, forced, text, of, url) ==
    [name |-> name, forced |-> forced, text |-> text, of |-> of, url |-> url]

\* The index of the next selected entry after cursor, or 0.
NextSelected ==
    LET rest == {k \in (cursor + 1)..Len(listing) : Selected(listing[k], extension)}
    IN  IF rest = {} THEN 0 ELSE CHOOSE k \in rest : \A m \in rest : k <= m

\* create_pooch_registry opens the output file and calls create_shared_links,
\* whose body starts at the first iteration: without a token it raises
\* ValueError before any remote call.
MissingToken ==
    /\ pc = "start"
    /\ Token("") = ""
    /\ pc' = "error"
    /\ UNCHANGED <<env_token, listing, extension, force_hash, cursor, link, registry,
                   warned, log, hasher_vars, stream_vars, file_vars>>

\* Mutant of ListFolder: the client is built and the folder listed before the
\* token is looked at.
ListFolder_unchecked ==
    /\ pc = "start"
    /\ log' = log \o <<Event("Dropbox", 0), Event("files_list_folder", 0)>>
    /\ pc' = "iter"
    /\ UNCHANGED <<env_token, listing, extension, force_hash, cursor, link, registry,
                   warned, hasher_vars, stream_vars, file_vars>>

\* Lines 46-49: the client is built and the folder listed.
ListFolder ==
    /\ pc = "start"
    /\ Token("") # ""
    /\ log' = log \o <<Event("Dropbox", 0), Event("files_list_folder", 0)>>
    /\ pc' = "iter"
    /\ UNCHANGED <<env_token, listing, extension, force_hash, cursor, link, registry,
                   warned, hasher_vars, stream_vars, file_vars>>

\* Lines 51-67: the generator skips to the next selected entry, creates its
\* shared link and yields its record.
YieldLink ==
    /\ pc = "iter"
    /\ NextSelected # 0
    /\ cursor' = NextSelected
    /\ log' = Append(log, Event("sharing_create_shared_link", NextSelected))
    /\ link' = Link(NextSelected)
    /\ pc' = "body"
    /\ UNCHANGED <<env_token, listing, extension, force_hash, registry, warned,
                   hasher_vars, stream_vars, file_vars>>

\* The generator is exhausted: the loop ends and the file is closed.
EndOfListing ==
    /\ pc = "iter"
    /\ NextSelected = 0
    /\ cursor' = Len(listing)
    /\ pc' = "done"
    /\ UNCHANGED <<env_token, listing, extension, force_hash, link, registry, warned,
                   log, hasher_vars, stream_vars, file_vars>>

\* Lines 125-129: the forced hash is written, nothing is downloaded.
ForcedLine ==
    /\ pc = "body"
    /\ Truthy(force_hash)
    /\ registry' = Append(registry, Line(link.name, TRUE, force_hash.text, NoHex, link.url))
    /\ pc' = "iter"
    /\ UNCHANGED <<env_token, listing, extension, force_hash, cursor, link, warned, log,
                   hasher_vars, stream_vars, file_vars>>

\* Line 132: pooch.retrieve raises; the error ends the run.
DownloadFails ==
    /\ pc = "body"
    /\ ~Truthy(force_hash)
    /\ log' = Append(log, Event("retrieve", link.at))
    /\ pc' = "error"
    /\ UNCHANGED <<env_token, listing, extension, force_hash, cursor, link, registry,
                   warned, hasher_vars, stream_vars, file_vars>>

\* Mutant of HashDiffers: the comparison never reports a difference.
HashDiffers_never(data, dropbox_hash) == db_content_hash(data, DefaultChunkSize) # db_content_hash(data, DefaultChunkSize)

\* Line 135: the content hash of the downloaded file differs from the provider's.
HashDiffers(data, dropbox_hash) == db_content_hash(data, DefaultChunkSize) # dropbox_hash

\* Lines 132-140: downloaded, hashes differ: a warning, no line.
SkipMismatch ==
    /\ pc = "body"
    /\ ~Truthy(force_hash)
    /\ HashDiffers(listing[link.at].content, link.content_hash)
    /\ log' = log \o <<Event("retrieve", link.at), Event("db_content_hash", link.at)>>
    /\ warned' = Append(warned, link.at)
    /\ pc' = "iter"
    /\ UNCHANGED <<env_token, listing, extension, force_hash, cursor, link, registry,
                   hasher_vars, stream_vars, file_vars>>

\* Lines 132-143: downloaded, hashes agree: the file's hash is written.
WriteLine ==
    /\ pc = "body"
    /\ ~Truthy(force_hash)
    /\ ~HashDiffers(listing[link.at].content, link.content_hash)
    /\ log' = log \o <<Event("retrieve", link.at), Event("db_content_hash", link.at),
                       Event("file_hash", link.at)>>
    /\ registry' = Append(registry, Line(link.name, FALSE, "",
                                         file_hash(listing[link.at].content), link.url))
    /\ pc' = "iter"
    /\ UNCHANGED <<env_token, listing, extension, force_hash, cursor, link, warned,
                   hasher_vars, stream_vars, file_vars>>

RunInit ==
    /\ pc = "start"
    /\ cursor = 0
    /\ link = NoLink
    /\ registry = <<>>
    /\ warned = <<>>
    /\ log = <<>>

\* create_pooch_registry(dropbox_folder, output_path, extension, force_hash)
RegistryInit ==
    /\ env_token \in {"", "token"}
    /\ listing \in Listings \cup LongListings
    /\ extension \in Extensions
    /\ force_hash \in ForceHashes
    /\ RunInit

\* No registry is being built.
NoRegistry ==
    /\ env_token = ""
    /\ listing = <<>>
    /\ extension = <<>>
    /\ force_hash = [given |-> FALSE, text |-> ""]
    /\ RunInit

\* ------------------------------------------------ db_content_hash on a file
MaxFile == 4        \* length of the file db_content_hash is given
MaxChunk == 3       \* largest chunksize argument

\* The chunksize arguments: read(-1) reads to the end of the file, read(0) nothing.
ChunkSizes == (0 - 1)..MaxChunk

\* A caller invokes db_content_hash(file, chunksize).
DbContentHash ==
    /\ ~db_ret.called
    /\ db_ret' = [called |-> TRUE, value |-> db_content_hash(content, chunksize_arg)]
    /\ UNCHANGED <<content, chunksize_arg, hasher_vars, stream_vars, registry_vars>>

\* A file and a chunksize, before the call.
FileInit ==
    /\ content \in BytesUpTo(MaxFile)
    /\ chunksize_arg \in ChunkSizes
    /\ db_ret = [called |-> FALSE, value |-> NoHex]

\* db_content_hash is not in use.
NoFile ==
    /\ content = <<>>
    /\ chunksize_arg = DefaultChunkSize
    /\ db_ret = [called |-> FALSE, value |-> NoHex]

vars == <<hasher_vars, stream_vars, registry_vars, file_vars>>

\* ---------------------------------------------------- claims on the hasher
\* The last call was a digest() or hexdigest() that returned a value.
Returned == ret.raised = "" /\ ret.op \in {"digest", "hexdigest"}

\* What a fresh hasher returns for one update(s) followed by the same finalizer.
OneShot(op, s) ==
    IF op = "digest" THEN digest(update(NewHasher, s).h).value
    ELSE hexdigest(update(NewHasher, s).h).value

\* C1: whatever the chunks a byte string was fed in (empty chunks, chunks longer
\* than BLOCK_SIZE, cuts on multiples of BLOCK_SIZE), the value the finalizer
\* returns is the one a fresh hasher returns after a single update() with the
\* whole string.
C1_ChunkingIndependence == Returned => ret.value = OneShot(ret.op, Fed)

\* C1 witness: finalized after an empty chunk, a chunk ending on a block
\* boundary and a chunk longer than a block.
C1_Witness ==
    /\ Returned
    /\ Len(calls) = 3
    /\ Len(calls[1]) = 0
    /\ Len(calls[2]) = BLOCK_SIZE
    /\ Len(calls[3]) > BLOCK_SIZE

\* C2: digest() returns SHA-256 over the concatenated raw SHA-256 digests of the
\* consecutive BLOCK_SIZE blocks of everything fed (the last block possibly
\* shorter), and hexdigest() returns the hexadecimal encoding of that value.
C2_ReferenceResult ==
    Returned => ret.value = IF ret.op = "digest" THEN RetBytes(ContentHash(Fed))
                            ELSE RetStr(hex(ContentHash(Fed)))

\* C2 witness: hexdigest() returned for BLOCK_SIZE + 1 bytes fed in two calls.
C2_Witness ==
    /\ Returned
    /\ ret.op = "hexdigest"
    /\ Len(Fed) = BLOCK_SIZE + 1
    /\ Len(calls) = 2

\* The block digests that went into the overall accumulator of a returned value.
FoldedOf(v) == IF v.kind = "bytes" THEN v.of.sha256 ELSE v.of.hex_of.sha256

CeilDiv(n, d) == (n + d - 1) \div d

\* C3: by the time the finalizer returns, exactly ceil(n / BLOCK_SIZE) block
\* digests have been folded in for n bytes fed: none for n = 0 (the result is
\* SHA-256 of the empty string), and k for n = k * BLOCK_SIZE, without a trailing
\* digest of an empty block.
C3_FoldedBlocks ==
    Returned =>
        /\ Len(FoldedOf(ret.value)) = CeilDiv(Len(Fed), BLOCK_SIZE)
        /\ Len(Fed) = 0 => FoldedOf(ret.value) = <<>>
        /\ Len(Fed) = BLOCK_SIZE => FoldedOf(ret.value) = <<[sha256 |-> Fed]>>

\* C3 witness: finalized after exactly two full blocks.
C3_Witness == Returned /\ Len(Fed) = 2 * BLOCK_SIZE

\* C3 witness for the empty input fed as an empty update.
C3_WitnessEmpty == Returned /\ Len(Fed) = 0 /\ Len(calls) = 1

\* C4: once digest() or hexdigest() has returned, the hasher stays finalized and
\* every later update(), digest() or hexdigest() raises the "already finalized"
\* RuntimeError and leaves the hasher as it was, whatever block_pos was.
C4_FinalizationTerminal ==
    /\ [](finalized => AlreadyFinalized(Self))
    /\ [][finalized => /\ finalized'
                       /\ ret'.raised = "RuntimeError"
                       /\ UNCHANGED <<overall_hasher, block_hasher, block_pos, calls>>]_vars

\* C4 witness: an update() was refused on a hasher finalized with block_pos = 0.
C4_Witness ==
    /\ finalized
    /\ block_pos = 0
    /\ after = MaxAfter
    /\ ret.op = "update"
    /\ ret.raised = "RuntimeError"

\* -------------------------------------------------- claims on the adapter
\* C5: after adapter calls that all returned, the hasher has been fed exactly
\* the bytes those calls moved, in call order; so a stream read to its end
\* through the adapter and then finalized gives the digest of a fresh hasher
\* fed the stream's content in one update().
C5_StreamHashingEquivalence ==
    all_ok =>
        /\ Fed = transferred
        /\ f.mode = "r" => transferred = SubSeq(f.data, 1, f.pos)
        /\ f.mode = "w" => transferred = f.data
        /\ Returned => ret.value = OneShot(ret.op, transferred)
        /\ Returned /\ f.mode = "r" /\ f.pos = Len(f.data) =>
               ret.value = RetStr(hex(ContentHash(f.data)))

\* C5 witness: a stream of more than one block read to its end in several
\* calls, one of them readlines(), and the hasher finalized.
C5_Witness ==
    /\ all_ok
    /\ Returned
    /\ f.mode = "r"
    /\ f.pos = Len(f.data)
    /\ Len(f.data) > BLOCK_SIZE
    /\ ncalls = 2
    /\ Len(calls) = 3
    /\ sret.op = "readlines"

\* C6: whenever the wrapped call succeeds, the adapter returns to its caller
\* exactly the value the wrapped stream returned, for readlines() the whole
\* list of lines.
C6_Transparency ==
    inner.called /\ inner.raised = "" => sret.raised = "" /\ sret.value = inner.value

\* C7: when the wrapped stream raises during an adapter call, the hasher is
\* left as it was before the call and the caller gets the stream's failure.
C7_NoHashOnFailedIO ==
    inner.called /\ inner.raised # "" => Self = prev_hasher /\ sret.raised = inner.raised

\* The operations of the adapter that transfer no bytes.
NonByteOps == {"close", "flush", "tell", "fileno"}

\* The call of that name on the wrapped stream s.
WrappedCall(op, s) ==
    CASE op = "close" -> f_close(s)
      [] op = "flush" -> f_flush(s)
      [] op = "tell" -> f_tell(s)
      [] OTHER -> f_fileno(s)

\* C16: a call to close, flush, tell or fileno on the adapter, in whatever state
\* the stream and the hasher are, makes exactly the call of the same name on the
\* wrapped stream, hands its outcome to the caller, and leaves the hasher and
\* the bytes hashed so far unchanged.
C16_NonByteOps ==
    [][ncalls' = ncalls + 1 /\ sret'.op \in NonByteOps =>
           /\ UNCHANGED <<overall_hasher, block_hasher, block_pos, calls>>
           /\ inner' = Inner(WrappedCall(sret'.op, f))
           /\ f' = WrappedCall(sret'.op, f).f
           /\ sret'.raised = inner'.raised
           /\ sret'.raised = "" => sret'.value = inner'.value]_vars

\* C16 witness: tell() has returned on an adapter whose hasher holds bytes.
C16_Witness ==
    /\ sret.op = "tell"
    /\ sret.raised = ""
    /\ inner.called
    /\ calls # <<>>
    /\ Self = prev_hasher

\* ------------------------------------------- claims on the registry builder
\* The listing indexes the generator yields a record for, in listing order.
RECURSIVE SelectedFrom(_)
SelectedFrom(k) ==
    IF k > Len(listing) THEN <<>>
    ELSE (IF Selected(listing[k], extension) THEN <<k>> ELSE <<>>) \o SelectedFrom(k + 1)

\* The downloaded content of entry k has the content hash the provider gave.
HashesAgree(k) == hex(ContentHash(listing[k].content)) = listing[k].content_hash

RECURSIVE Keep(_, _)
Keep(ks, agree) ==
    IF ks = <<>> THEN <<>>
    ELSE (IF HashesAgree(Head(ks)) = agree THEN <<Head(ks)>> ELSE <<>>) \o Keep(Tail(ks), agree)

ComputedLine(k) ==
    Line(listing[k].name, FALSE, "", hex([sha256 |-> listing[k].content]),
         [path |-> listing[k].path_lower, dl |-> 1])

ForcedLineOf(k) ==
    Line(listing[k].name, TRUE, force_hash.text, NoHex,
         [path |-> listing[k].path_lower, dl |-> 1])

\* C8: in a run without a forced hash, once the loop over the listing is over,
\* the registry holds, in listing order, one line for exactly the yielded
\* entries whose downloaded content has the provider's content hash; every
\* other yielded entry got a warning and no line, and the entries after it
\* were still processed.
C8_HashGate ==
    pc = "done" /\ ~Truthy(force_hash) =>
        /\ registry = [j \in 1..Len(Keep(SelectedFrom(1), TRUE)) |->
                          ComputedLine(Keep(SelectedFrom(1), TRUE)[j])]
        /\ warned = Keep(SelectedFrom(1), FALSE)

\* C8 witness: a run that skipped a mismatching first entry with a warning and
\* then wrote the line of a matching entry of more than one block.
C8_Witness ==
    /\ pc = "done"
    /\ ~Truthy(force_hash)
    /\ Len(listing) = 2
    /\ warned = <<1>>
    /\ Len(registry) = 1
    /\ registry[1].name = listing[2].name
    /\ Len(listing[2].content) > BLOCK_SIZE

\* C9: the registry never holds two lines with the same name.
C9_UniqueNames ==
    \A i, j \in 1..Len(registry) : i # j => registry[i].name # registry[j].name

DownloadEvents == {"retrieve", "db_content_hash", "file_hash"}

\* C10: whenever force_hash is not None, nothing is downloaded, hashed or
\* compared, and the finished registry holds, in listing order, one line
\* "name force_hash url" for every yielded entry.
C10_ForcedHashMode ==
    force_hash.given =>
        /\ \A e \in 1..Len(log) : log[e].ev \notin DownloadEvents
        /\ pc = "done" => registry = [j \in 1..Len(SelectedFrom(1)) |->
                                         ForcedLineOf(SelectedFrom(1)[j])]

\* The behaviour C10 describes, for a force_hash that is a non-empty string
\* (the truthiness test of line 125).
ForcedHashWhenTruthy ==
    Truthy(force_hash) =>
        /\ \A e \in 1..Len(log) : log[e].ev \notin DownloadEvents
        /\ pc = "done" => registry = [j \in 1..Len(SelectedFrom(1)) |->
                                         ForcedLineOf(SelectedFrom(1)[j])]

\* C11 as stated: one build in which the first of four entries carries the
\* forced placeholder, the second and third have matching content and the
\* fourth has not, ends with three lines: the placeholder on line one, computed
\* hashes on lines two and three, and a warning instead of a line for the fourth.
C11_MixedManifest ==
    /\ pc = "done"
    /\ Truthy(force_hash)
    /\ SelectedFrom(1) = <<1, 2, 3, 4>>
    /\ HashesAgree(2) /\ HashesAgree(3) /\ ~HashesAgree(4)
    => /\ Len(registry) = 3
       /\ registry[1].forced /\ registry[1].text = force_hash.text
       /\ registry[2] = ComputedLine(2)
       /\ registry[3] = ComputedLine(3)
       /\ warned = <<4>>

\* C11 amended: force_hash applies to a whole build.  A finished build with a
\* non-empty force_hash holds one placeholder line per yielded entry and has
\* warned about none; a finished build without one holds computed hashes only,
\* on the lines of the entries with matching content, and has warned about
\* every other yielded entry.  No registry mixes the two kinds of line.
C11_ForcedOrComputed ==
    /\ \A j \in 1..Len(registry) : registry[j].forced = Truthy(force_hash)
    /\ pc = "done" /\ Truthy(force_hash) =>
           /\ Len(registry) = Len(SelectedFrom(1))
           /\ \A j \in 1..Len(registry) : registry[j].text = force_hash.text
           /\ warned = <<>>
    /\ pc = "done" /\ ~Truthy(force_hash) =>
           /\ Len(registry) = Len(Keep(SelectedFrom(1), TRUE))
           /\ \A j \in 1..Len(registry) :
                  registry[j].of = hex([sha256 |-> listing[Keep(SelectedFrom(1), TRUE)[j]].content])
           /\ Len(registry) + Len(warned) = Len(SelectedFrom(1))

\* C11 witness: a finished build without force_hash over four entries, the
\* first three matching and the fourth not: three lines and one warning.
C11_Witness ==
    /\ pc = "done"
    /\ ~Truthy(force_hash)
    /\ SelectedFrom(1) = <<1, 2, 3, 4>>
    /\ Len(registry) = 3
    /\ warned = <<4>>

\* C12: when neither the api_token argument nor DROPBOX_API_TOKEN gives a
\* non-empty token, the run is at its start or has failed with the
\* configuration error, and no remote call (client construction, folder
\* listing, shared-link creation), download or hash computation has been made,
\* no record yielded and no line written.
C12_MissingCredential ==
    Token("") = "" =>
        /\ pc \in {"start", "error"}
        /\ log = <<>>
        /\ link = NoLink
        /\ registry = <<>>
        /\ warned = <<>>

\* C12 witness: a run over a listing with files in it that has failed for the
\* missing token.
C12_Witness ==
    /\ Token("") = ""
    /\ pc = "error"
    /\ SelectedFrom(1) # <<>>

\* C14: in every state of a hasher - after construction, between and after
\* update() calls, and after finalization - 0 <= block_pos <= BLOCK_SIZE.
C14_BlockPosBound == 0 <= block_pos /\ block_pos <= BLOCK_SIZE

\* C14 witness: a finalized hasher that was fed more than one block and whose
\* block_pos is at the upper bound.
C14_Witness == finalized /\ Len(Fed) > BLOCK_SIZE /\ block_pos = BLOCK_SIZE

\* C15 as stated: when update() has returned and the bytes fed fill whole
\* blocks, every block has been folded into the overall accumulator, a fresh
\* block accumulator is in place and block_pos is 0, nothing pending.
C15_EagerBlockClose ==
    ~finalized /\ Len(Fed) > 0 /\ Len(Fed) % BLOCK_SIZE = 0 =>
        /\ block_pos = 0
        /\ block_hasher = sha256_new
        /\ Len(overall_hasher.buf) = Len(Fed) \div BLOCK_SIZE

\* C15 amended: update() closes a full block lazily.  When update() has returned
\* and the bytes fed fill whole blocks, the last block is still pending:
\* block_pos is BLOCK_SIZE, the block accumulator holds the last BLOCK_SIZE
\* bytes and the overall accumulator holds one digest less than there are
\* blocks.  Finalizing after exactly BLOCK_SIZE bytes folds that one block in.
C15_LazyBlockClose ==
    /\ ~finalized /\ Len(Fed) > 0 /\ Len(Fed) % BLOCK_SIZE = 0 =>
           /\ block_pos = BLOCK_SIZE
           /\ block_hasher =
                  sha256_update(sha256_new, Slice(Fed, Len(Fed) - BLOCK_SIZE, Len(Fed)))
           /\ Len(overall_hasher.buf) = Len(Fed) \div BLOCK_SIZE - 1
    /\ Returned /\ Len(Fed) = BLOCK_SIZE =>
           /\ block_hasher = None
           /\ FoldedOf(ret.value) = <<[sha256 |-> Fed]>>

\* C15 witness: two whole blocks fed, not finalized, the second one pending.
C15_Witness ==
    /\ ~finalized
    /\ Len(Fed) = 2 * BLOCK_SIZE
    /\ block_pos = BLOCK_SIZE
    /\ Len(overall_hasher.buf) = 1

\* C13 as stated: for every file content and every integer chunksize, the
\* string db_content_hash returns is the one a fresh hasher gives when fed the
\* whole content in one update() and finalized with hexdigest().
C13_ChunksizeIndependence ==
    db_ret.called => db_ret.value = OneShot("hexdigest", content).of

\* For every chunksize other than 0 the returned string is that one.
ChunksizeIndependenceNonZero ==
    db_ret.called /\ chunksize_arg # 0 => db_ret.value = OneShot("hexdigest", content).of

Init == HasherInit /\ NoStream /\ NoRegistry /\ NoFile

Next == Update \/ UpdateNonBytes \/ Digest \/ Hexdigest

Spec == Init /\ [][Next]_vars

\* An adapter in use: calls through it, then the caller finalizes the hasher.
InitStream == HasherInit /\ StreamInit /\ NoRegistry /\ NoFile

NextStream ==
    \/ Read \/ Readline \/ Readlines \/ NextLine \/ Write
    \/ Close \/ Flush \/ Tell \/ Fileno
    \/ Finalize

SpecStream == InitStream /\ [][NextStream]_vars

\* A run of create_pooch_registry.
InitRegistry == HasherInit /\ NoStream /\ RegistryInit /\ NoFile

NextRegistry ==
    \/ MissingToken \/ ListFolder \/ YieldLink \/ EndOfListing
    \/ ForcedLine \/ DownloadFails \/ SkipMismatch \/ WriteLine

SpecRegistry == InitRegistry /\ [][NextRegistry]_vars

\* C17: update() called on a hasher that is not finalized with a value that is
\* not a byte string raises at once (the assertion of line 82) and leaves the
\* overall accumulator, the block accumulator, block_pos and the bytes hashed
\* as they were; so whatever the finalizer returns later is what a fresh hasher
\* gives for the bytes of the valid updates alone.
C17_MalformedInput ==
    /\ [][~finalized /\ ret'.op = "update" /\ arg_type' \in NonBytesTypes =>
              /\ ret'.raised = "AssertionError"
              /\ UNCHANGED <<overall_hasher, block_hasher, block_pos, calls, finalized>>]_vars
    /\ [](Returned => ret.value = OneShot(ret.op, Fed))

\* C17 witness: a finalizer has returned for a hasher that took one valid
\* update of a whole block and whose last update() call, with a str, was rejected.
C17_Witness ==
    /\ Returned
    /\ arg_type = "str"
    /\ Len(calls) = 1
    /\ Len(Fed) = BLOCK_SIZE

\* An entry the generator is to yield a record for: a file whose name ends
\* with the extension, any file when the extension is empty.
Expected(k) ==
    /\ listing[k].is_file
    /\ \/ extension = <<>>
       \/ /\ Len(extension) <= Len(listing[k].name)
          /\ SubSeq(listing[k].name, Len(listing[k].name) - Len(extension) + 1,
                    Len(listing[k].name)) = extension

\* The expected entries among the first k of the listing, in listing order.
RECURSIVE ExpectedUpTo(_)
ExpectedUpTo(k) ==
    IF k = 0 THEN <<>>
    ELSE ExpectedUpTo(k - 1) \o (IF Expected(k) THEN <<k>> ELSE <<>>)

\* The listing indexes a shared link was created for, in the order of the calls.
LinksCreated ==
    LET ev == SelectSeq(log, LAMBDA e : e.ev = "sharing_create_shared_link")
    IN  [j \in 1..Len(ev) |-> ev[j].at]

\* C18: the generator creates a shared link and yields a record for exactly the
\* entries that are files and whose name ends with the extension (every file
\* when the extension is empty), in listing order, one each; the record carries
\* the entry's name and content hash and the link's url with dl=0 replaced by
\* dl=1; for the other entries no shared link is created and nothing is yielded.
C18_ListingFilter ==
    /\ pc \in {"iter", "body", "done"} => LinksCreated = ExpectedUpTo(cursor)
    /\ pc = "body" =>
           /\ Expected(cursor)
           /\ link = [at |-> cursor, name |-> listing[cursor].name,
                      url |-> [path |-> listing[cursor].path_lower, dl |-> 1],
                      content_hash |-> listing[cursor].content_hash]
    /\ pc = "done" => cursor = Len(listing)

\* C18 witness: the generator is exhausted after a listing of a file with
\* another extension followed by a file with the extension, for which alone a
\* link was created.
C18_Witness ==
    /\ pc = "done"
    /\ extension # <<>>
    /\ Len(listing) = 2
    /\ listing[1].is_file /\ ~Expected(1)
    /\ LinksCreated = <<2>>

\* C19: in every non-finalized state, block_pos is 0 exactly when no byte has
\* been fed; once a byte has been fed the block accumulator holds block_pos
\* bytes, between 1 and BLOCK_SIZE, not yet folded in, and the number of digests
\* folded in times BLOCK_SIZE plus block_pos is the number of bytes fed.
C19_PendingBlock ==
    ~finalized =>
        /\ block_pos = 0 <=> Len(Fed) = 0
        /\ Len(Fed) > 0 => block_pos >= 1 /\ block_pos <= BLOCK_SIZE
        /\ Len(block_hasher.buf) = block_pos
        /\ block_hasher.buf = Slice(Fed, Len(Fed) - block_pos, Len(Fed))
        /\ Len(overall_hasher.buf) * BLOCK_SIZE + block_pos = Len(Fed)

\* C19 witness: a block folded in and one byte pending after three bytes.
C19_Witness ==
    /\ ~finalized
    /\ Len(Fed) = BLOCK_SIZE + 1
    /\ block_pos = 1
    /\ Len(overall_hasher.buf) = 1

\* The sum of a sequence of numbers.
RECURSIVE Sum(_)
Sum(ns) == IF ns = <<>> THEN 0 ELSE Head(ns) + Sum(Tail(ns))

\* C20: the loop of an update() call that returned on a hasher that was not
\* finalized took at least one byte of the input in every iteration (the space
\* left in the block was at least 1 and at most BLOCK_SIZE whenever a part was
\* sliced), ran at most len(data) times, and took all len(data) bytes.
C20_UpdateTerminates ==
    ret.op = "update" /\ ret.raised = "" =>
        LET new_data == calls[Len(calls)]
        IN  /\ \A j \in 1..Len(parts) : parts[j] >= 1 /\ parts[j] <= BLOCK_SIZE
            /\ Len(parts) <= Len(new_data)
            /\ Sum(parts) = Len(new_data)

\* C20 witness: an update() that found a full block pending and was given more
\* than a block took two iterations.
C20_Witness ==
    /\ ret.op = "update" /\ ret.raised = ""
    /\ Len(calls) = 2
    /\ Len(calls[1]) = BLOCK_SIZE
    /\ Len(calls[2]) = BLOCK_SIZE + 1
    /\ parts = <<BLOCK_SIZE, 1>>

\* db_content_hash on a file.
InitFile == HasherInit /\ NoStream /\ NoRegistry /\ FileInit

NextFile == DbContentHash

SpecFile == InitFile /\ [][NextFile]_vars

====
